---- MODULE Spec2Model ----
(***************************************************************************)
(* TinyLogger: the log_run decorator of src/src/tinylogger/decorator.py.   *)
(*                                                                         *)
(* The state is the log file, the stack of wrapper activations (a wrapped  *)
(* function may call another wrapped function before it returns), the      *)
(* clock read by datetime.now, and what the caller of the last completed   *)
(* call observed.  Python values are records of atoms; JSON text is a      *)
(* different record type, so that serialization is a real conversion.      *)
(*                                                                         *)
(* Environment assumptions: warnings.warn records the warning and returns  *)
(* (no warnings filter turns warnings into exceptions); every read of the  *)
(* clock is later than the previous one; a failed write leaves no partial  *)
(* line in the file.                                                       *)
(***************************************************************************)
EXTENDS Integers, Sequences, FiniteSets, TLC

VARIABLES log_file, file_exists, stack, clock, calls, last, probe

vars == <<log_file, file_exists, stack, clock, calls, last, probe>>

\* Number of wrapper invocations explored in one behaviour.
MaxCalls == 2

(***************************************************************************)
(* Python values                                                           *)
(***************************************************************************)
PyInt(s) == [t |-> "int", v |-> s]
PyStr(s) == [t |-> "str", v |-> s]
\* object(): no JSON form, but str() works on it
Obj == [t |-> "object", v |-> "0x1"]
\* a tuple used as a dict key: json.dumps cannot encode it, default= is not asked
TupleKey == [t |-> "tuple", v |-> "(1, 2)"]
\* a reference back to the enclosing container
Cycle == [t |-> "cycle", v |-> "self"]

Scalar(a) == [kind |-> "scalar", items |-> <<a>>]
Tuple(as) == [kind |-> "tuple", items |-> as]
\* a dict as the alternating sequence key, value, key, value, ...
Dict(kvs) == [kind |-> "dict", items |-> kvs]

RECURSIVE Flatten(_)
Flatten(kwargs) ==
    IF kwargs = <<>> THEN <<>>
    ELSE <<PyStr(Head(kwargs).name), Head(kwargs).value>> \o Flatten(Tail(kwargs))

(***************************************************************************)
(* The callables handed to log_run                                         *)
(***************************************************************************)
Param(n, hd, d) == [name |-> n, has_default |-> hd, default |-> d]

\* def model(a, b=10, _c="test")
ModelParams ==
    << Param("a", FALSE, PyInt("0")),
       Param("b", TRUE, PyInt("10")),
       Param("_c", TRUE, PyStr("test")) >>

\* A Python function; a callable implemented in C whose signature inspect
\* cannot find (min and max are such); functools.partial objects of both,
\* which have no __name__.
Funcs ==
    { [id |-> "model", has_name |-> TRUE, name |-> "model",
       has_signature |-> TRUE, params |-> ModelParams],
      [id |-> "native", has_name |-> TRUE, name |-> "native",
       has_signature |-> FALSE, params |-> <<>>],
      [id |-> "partial(model)", has_name |-> FALSE, name |-> "",
       has_signature |-> TRUE, params |-> ModelParams],
      [id |-> "partial(native)", has_name |-> FALSE, name |-> "",
       has_signature |-> FALSE, params |-> <<>>] }

Kw(n, a) == [name |-> n, value |-> a]

KwHas(kwargs, n) == \E i \in 1..Len(kwargs) : kwargs[i].name = n

KwGet(kwargs, n) == kwargs[CHOOSE i \in 1..Len(kwargs) : kwargs[i].name = n].value

(***************************************************************************)
(* inspect.signature(func).bind and BoundArguments.apply_defaults          *)
(***************************************************************************)
\* inspect.signature raises ValueError when no signature is found; bind
\* raises TypeError for too many positionals, an unexpected keyword, two
\* values for one parameter, or a required parameter left without a value.
BindError(func, args, kwargs) ==
    LET ps == func.params
        names == {ps[i].name : i \in 1..Len(ps)}
    IN  IF ~func.has_signature THEN "ValueError"
        ELSE IF \/ Len(args) > Len(ps)
                \/ \E k \in 1..Len(kwargs) : kwargs[k].name \notin names
                \/ \E i \in 1..Len(ps) : i <= Len(args) /\ KwHas(kwargs, ps[i].name)
                \/ \E i \in 1..Len(ps) : /\ i > Len(args)
                                         /\ ~KwHas(kwargs, ps[i].name)
                                         /\ ~ps[i].has_default
             THEN "TypeError"
             ELSE ""

\* BoundArguments.arguments right after bind: the supplied parameters only,
\* in declaration order.
signature_bind(func, args, kwargs) ==
    LET ps == func.params
        slot(i) ==
            IF i <= Len(args)
            THEN [name |-> ps[i].name, value |-> Scalar(args[i]), given |-> TRUE]
            ELSE IF KwHas(kwargs, ps[i].name)
            THEN [name |-> ps[i].name, value |-> Scalar(KwGet(kwargs, ps[i].name)),
                  given |-> TRUE]
            ELSE [name |-> ps[i].name, value |-> Scalar(ps[i].default), given |-> FALSE]
        given == SelectSeq([i \in 1..Len(ps) |-> slot(i)], LAMBDA e : e.given)
    IN  [i \in 1..Len(given) |-> [name |-> given[i].name, value |-> given[i].value]]

\* A binding that forgets the defaults of omitted parameters.
apply_defaults_skipped(func, bound) == bound

\* BoundArguments.apply_defaults: every parameter, in declaration order,
\* with its bound value or else its default.
apply_defaults(func, bound) ==
    LET ps == func.params
        has(n) == \E j \in 1..Len(bound) : bound[j].name = n
        get(n) == bound[CHOOSE j \in 1..Len(bound) : bound[j].name = n].value
    IN  [i \in 1..Len(ps) |->
            [name |-> ps[i].name,
             value |-> IF has(ps[i].name) THEN get(ps[i].name)
                       ELSE Scalar(ps[i].default)]]

\* A warnings.warn call: the category, the place that issued it, and what
\* the message names (the function, or the error).
Warning(origin, about) == [category |-> "UserWarning", origin |-> origin, about |-> about]

\* {"_args": args, "_kwargs": kwargs}
Degraded(args, kwargs) ==
    << [name |-> "_args", value |-> Tuple(args)],
       [name |-> "_kwargs", value |-> Dict(Flatten(kwargs))] >>

\* _get_func_args.  In the except branch the message is formatted first, and
\* it reads func.__name__: with no such attribute the handler itself raises
\* AttributeError before warnings.warn is reached.
_get_func_args(func, args, kwargs) ==
    IF BindError(func, args, kwargs) = ""
    THEN [raised |-> FALSE, exc |-> "",
          value |-> apply_defaults(func, signature_bind(func, args, kwargs)),
          warnings |-> <<>>]
    ELSE IF ~func.has_name
    THEN [raised |-> TRUE, exc |-> "AttributeError", value |-> <<>>, warnings |-> <<>>]
    ELSE [raised |-> FALSE, exc |-> "", value |-> Degraded(args, kwargs),
          warnings |-> <<Warning("_get_func_args", func.name)>>]

(***************************************************************************)
(* json.dumps(entry, default=str) and _serialize_log_entry                 *)
(***************************************************************************)
\* The error json.dumps raises on a value position: a circular reference is
\* a ValueError; everything else is encoded, default=str included.
AtomError(a) == IF a.t = "cycle" THEN "ValueError" ELSE ""

\* Dict keys must be str, int, float, bool or None; default= is not consulted.
KeyEncodeError(a) == IF a.t \in {"str", "int", "float"} THEN "" ELSE "TypeError"

FirstError(errs) ==
    LET bad == SelectSeq(errs, LAMBDA e : e # "")
    IN  IF bad = <<>> THEN "" ELSE Head(bad)

EncodeError(pv) ==
    FirstError([i \in 1..Len(pv.items) |->
        IF pv.kind = "dict" /\ i % 2 = 1 THEN KeyEncodeError(pv.items[i])
        ELSE AtomError(pv.items[i])])

\* JSON text of one atom: numbers bare, strings quoted, and any other object
\* as the string str() gives for it.
EncodeAtom(a) ==
    IF a.t \in {"int", "float"} THEN [t |-> "number", v |-> a.v]
    ELSE IF a.t = "str" THEN [t |-> "string", v |-> a.v]
    ELSE IF a.t = "tuple" THEN [t |-> "array", v |-> a.v]
    ELSE [t |-> "string", v |-> "<object object at 0x1>"]

\* Keys are written as JSON strings, an int key too.
EncodeKey(a) == [t |-> "string", v |-> a.v]

\* scalar -> scalar, tuple -> array, dict -> object
Encode(pv) ==
    [kind |-> IF pv.kind = "scalar" THEN "scalar"
              ELSE IF pv.kind = "tuple" THEN "array" ELSE "object",
     items |-> [i \in 1..Len(pv.items) |->
        IF pv.kind = "dict" /\ i % 2 = 1 THEN EncodeKey(pv.items[i])
        ELSE EncodeAtom(pv.items[i])]]

EncodeParams(params) ==
    [i \in 1..Len(params) |-> [name |-> params[i].name, value |-> Encode(params[i].value)]]

\* The entry mapping's keys, in the order the wrapper inserts them.
EntryKeys == <<"timestamp", "runtime_seconds", "params", "metrics", "function_name">>

\* json.dumps walks the entry in key order: params before metrics.
DumpsError(entry) ==
    FirstError([i \in 1..Len(entry.params) |-> EncodeError(entry.params[i].value)]
               \o <<EncodeError(entry.metrics)>>)

\* json.dumps with sort_keys=True.
json_dumps_sorted(entry) ==
    [keys |-> <<"function_name", "metrics", "params", "runtime_seconds", "timestamp">>,
     timestamp |-> EncodeAtom(entry.timestamp),
     runtime_seconds |-> EncodeAtom(entry.runtime_seconds),
     params |-> EncodeParams(entry.params),
     metrics |-> Encode(entry.metrics),
     function_name |-> EncodeAtom(entry.function_name)]

\* json.dumps(entry, default=str) when it raises nothing: one JSON object,
\* keys in insertion order.
json_dumps(entry) ==
    [keys |-> entry.keys,
     timestamp |-> EncodeAtom(entry.timestamp),
     runtime_seconds |-> EncodeAtom(entry.runtime_seconds),
     params |-> EncodeParams(entry.params),
     metrics |-> Encode(entry.metrics),
     function_name |-> EncodeAtom(entry.function_name)]

\* _serialize_log_entry: the JSON text and a newline; a TypeError of
\* json.dumps becomes LoggerNonSerializableError, any other error passes.
_serialize_log_entry(entry) ==
    IF DumpsError(entry) = "TypeError"
    THEN [raised |-> TRUE, exc |-> "LoggerNonSerializableError", text |-> <<>>]
    ELSE IF DumpsError(entry) # ""
    THEN [raised |-> TRUE, exc |-> DumpsError(entry), text |-> <<>>]
    ELSE [raised |-> FALSE, exc |-> "", text |-> [json |-> json_dumps(entry), newline |-> TRUE]]

(***************************************************************************)
(* The wrapper                                                             *)
(***************************************************************************)
\* start_time.isoformat(): the text of an instant, standing for it one to one.
isoformat(time) == [t |-> "str", v |-> time]

\* round((end_time - start_time).total_seconds(), 4) in units of 0.0001 s; a
\* tick of the clock is 40 microseconds, so no difference lies on a tie.
round4(ticks) == [t |-> "float", v |-> (4 * ticks + 5) \div 10]

\* The exceptions the first except clause names: the two logger errors, and
\* IOError (OSError) with its subclass PermissionError.
FirstClause ==
    {"LoggerNonSerializableError", "LoggerWriteError", "IOError", "OSError",
     "PermissionError"}

\* A handler that swallows the error silently.
except_clauses_silent(exc) == [raised |-> FALSE, exc |-> "", warnings |-> <<>>]

\* The two except clauses of the logging region: each warns, neither raises.
except_clauses(exc) ==
    IF exc \in FirstClause
    THEN [raised |-> FALSE, exc |-> "", warnings |-> <<Warning("failed to log run", exc)>>]
    ELSE [raised |-> FALSE, exc |-> "", warnings |-> <<Warning("unexpected error", exc)>>]

\* What open(log_file, "a") and f.write do, decided by the file system.
IoOutcomes == {"ok", "open fails", "write fails"}

IoError(io) ==
    IF io = "open fails" THEN "PermissionError"
    ELSE IF io = "write fails" THEN "OSError" ELSE ""

\* An entry stamped with the time the call ended.
log_entry_end_stamp(fr, metrics, end_time, params) ==
    [keys |-> EntryKeys,
     timestamp |-> isoformat(end_time),
     runtime_seconds |-> round4(end_time - fr.start_time),
     params |-> params,
     metrics |-> metrics,
     function_name |-> PyStr(fr.func.name)]

\* The log entry of lines 113-119.
log_entry(fr, metrics, end_time, params) ==
    [keys |-> EntryKeys,
     timestamp |-> isoformat(fr.start_time),
     runtime_seconds |-> round4(end_time - fr.start_time),
     params |-> params,
     metrics |-> metrics,
     function_name |-> PyStr(fr.func.name)]

\* Lines 109-152 without the write: the error that ends the try block, ""
\* when it runs to its end.  The steps in order: bind the arguments, read
\* func.__name__ for the entry, serialize, open, write.
region_error(fr, metrics, end_time, io) ==
    LET b == _get_func_args(fr.func, fr.args, fr.kwargs)
    IN  IF b.raised THEN b.exc
        ELSE IF ~fr.func.has_name THEN "AttributeError"
        ELSE IF _serialize_log_entry(log_entry(fr, metrics, end_time, b.value)).raised
        THEN _serialize_log_entry(log_entry(fr, metrics, end_time, b.value)).exc
        ELSE IoError(io)

\* A wrapper that rewrites the file instead of appending to it (mode "w").
write_truncating(file, text) == <<text>>

\* A wrapper that writes the line twice.
write_twice(file, text) == Append(Append(file, text), text)

\* open(log_file, "a") and f.write(log_line): the text goes after the
\* content the file already has.
write(file, text) == Append(file, text)

\* A wrapper that hands back the logger's status instead of the result.
return_value_status(metrics, failure) ==
    IF failure = "" THEN metrics ELSE Scalar(PyStr("log failed"))

\* Line 154: return metrics.
return_value(metrics, failure) == metrics

\* A wrapper that logs the failed run before re-raising.
func_raised_logged(fr, e, file, exists) ==
    [file |-> Append(file, [json |-> json_dumps(log_entry(fr, Scalar(PyStr(e)),
                                         fr.start_time, <<>>)),
                            newline |-> TRUE]),
     exists |-> TRUE,
     warnings |-> <<>>,
     failure |-> "", raised |-> TRUE, exc |-> e, value |-> Scalar(PyInt("0"))]

\* Lines 99-103: the wrapped function raised; the same exception goes on to
\* the caller and nothing else happens.
func_raised(fr, e, file, exists) ==
    [file |-> file, exists |-> exists, warnings |-> <<>>,
     failure |-> "", raised |-> TRUE, exc |-> e, value |-> Scalar(PyInt("0"))]

\* Lines 105-154: the wrapped function returned metrics.
func_returned(fr, metrics, end_time, io, file, exists) ==
    LET b == _get_func_args(fr.func, fr.args, fr.kwargs)
        failure == region_error(fr, metrics, end_time, io)
        text == _serialize_log_entry(log_entry(fr, metrics, end_time, b.value)).text
        h == except_clauses(failure)
    IN  [file |-> IF failure = "" THEN write(file, text) ELSE file,
         \* open in append mode creates the file, whether or not the write works
         exists |-> exists \/ failure = "" \/ (failure = IoError(io) /\ io = "write fails"),
         warnings |-> b.warnings \o (IF failure = "" THEN <<>> ELSE h.warnings),
         failure |-> failure,
         raised |-> failure # "" /\ h.raised,
         exc |-> IF failure # "" /\ h.raised THEN h.exc ELSE "",
         value |-> return_value(metrics, failure)]

(***************************************************************************)
(* Inputs                                                                  *)
(***************************************************************************)
Fn(id) == CHOOSE f \in Funcs : f.id = id

Call(id, args, kwargs) == [func |-> Fn(id), args |-> args, kwargs |-> kwargs]

\* The calls a behaviour is made of: model(5, _c="override"), model(b=7, a=1),
\* model() (a TypeError at the call), native(5, 6), and the two partial objects.
CallInputs ==
    { Call("model", <<PyInt("5")>>, <<Kw("_c", PyStr("override"))>>),
      Call("model", <<>>, <<Kw("b", PyInt("7")), Kw("a", PyInt("1"))>>),
      Call("model", <<>>, <<>>),
      Call("native", <<PyInt("5"), PyInt("6")>>, <<>>),
      Call("partial(model)", <<PyInt("5")>>, <<>>),
      Call("partial(native)", <<PyInt("5"), PyInt("6")>>, <<>>) }

\* Every way of passing up to four positionals and these keywords.
Kwargs ==
    { <<>>,
      <<Kw("_c", PyStr("override"))>>,
      <<Kw("b", PyInt("7"))>>,
      <<Kw("b", PyInt("7")), Kw("a", PyInt("1"))>>,
      <<Kw("_c", PyStr("override")), Kw("a", PyInt("1"))>>,
      <<Kw("zz", PyInt("9"))>> }

Args ==
    { <<>>, <<PyInt("5")>>, <<PyInt("5"), PyInt("6")>>,
      <<PyInt("5"), PyInt("6"), PyStr("x")>>,
      <<PyInt("5"), PyInt("6"), PyStr("x"), PyInt("8")>> }

\* 20; {"metric": object()}; {(1, 2): 3}; d with d["self"] = d
ReturnValues ==
    { Scalar(PyInt("20")),
      Dict(<<PyStr("metric"), Obj>>),
      Dict(<<TupleKey, PyInt("3")>>),
      Dict(<<PyStr("self"), Cycle>>) }

\* What a wrapped function's own body may raise.
BodyExceptions == {"ValueError", "KeyboardInterrupt"}

\* Calling a Python function with arguments its signature does not accept
\* raises TypeError before the body runs; a callable without an
\* introspectable signature takes what it takes.
Accepts(func, args, kwargs) ==
    ~func.has_signature \/ BindError(func, args, kwargs) = ""

(***************************************************************************)
(* State                                                                   *)
(***************************************************************************)
\* What the caller of a completed call saw, and what the call did: what func
\* did (func_outcome, func_exc, metrics), what the wrapper did (outcome,
\* value or exc), the error that ended the logging region (failure), the
\* warnings it issued, the file content when the call began and the number
\* of texts it wrote itself.
NoCall ==
    [id |-> 0, func |-> Fn("model"), args |-> <<>>, kwargs |-> <<>>,
     start_time |-> 0, end_time |-> 0, parent |-> 0,
     func_outcome |-> "none", func_exc |-> "", metrics |-> Scalar(PyInt("0")),
     outcome |-> "none", value |-> Scalar(PyInt("0")), exc |-> "",
     failure |-> "", warnings |-> <<>>, before |-> <<>>, appended |-> 0]

NoProbe ==
    [called |-> FALSE, func |-> Fn("model"), args |-> <<>>, kwargs |-> <<>>,
     raised |-> FALSE, exc |-> "", value |-> <<>>, warnings |-> <<>>]

Init ==
    /\ log_file = <<>>
    /\ file_exists \in BOOLEAN
    /\ stack = <<>>
    /\ clock = 1
    /\ calls = <<>>
    /\ last = NoCall
    /\ probe = NoProbe

Top == stack[Len(stack)]

Completed(fr, r, end_time, func_outcome, func_exc, metrics, file) ==
    [id |-> fr.id, func |-> fr.func, args |-> fr.args, kwargs |-> fr.kwargs,
     start_time |-> fr.start_time, end_time |-> end_time, parent |-> fr.parent,
     func_outcome |-> func_outcome, func_exc |-> func_exc, metrics |-> metrics,
     outcome |-> IF r.raised THEN "raised" ELSE "returned",
     value |-> r.value, exc |-> r.exc, failure |-> r.failure,
     warnings |-> r.warnings, before |-> fr.before,
     appended |-> Len(r.file) - Len(file)]

\* wrapper, lines 90-100: read the clock, then call func.  The caller is the
\* test, or the body of a wrapped function that has not returned yet.
wrapper_enter(func, args, kwargs) ==
    /\ Len(calls) < MaxCalls
    /\ stack' = Append(stack, [id |-> Len(calls) + 1, func |-> func, args |-> args,
                               kwargs |-> kwargs, start_time |-> clock,
                               parent |-> IF stack = <<>> THEN 0 ELSE Top.id,
                               before |-> log_file])
    /\ calls' = Append(calls, [parent |-> IF stack = <<>> THEN 0 ELSE Top.id,
                               status |-> "running", failed |-> FALSE,
                               position |-> 0])
    /\ clock' = clock + 1
    /\ UNCHANGED <<log_file, file_exists, last, probe>>

\* wrapper, lines 100-103: func raises e.
wrapper_raise(e) ==
    /\ stack # <<>>
    /\ IF Accepts(Top.func, Top.args, Top.kwargs)
       THEN e \in BodyExceptions ELSE e = "TypeError"
    /\ \E r \in {func_raised(Top, e, log_file, file_exists)} :
           /\ log_file' = r.file
           /\ file_exists' = r.exists
           /\ last' = Completed(Top, r, 0, "raised", e, Scalar(PyInt("0")), log_file)
           /\ calls' = [calls EXCEPT ![Top.id].status = "raised",
                                     ![Top.id].position =
                                         IF Len(r.file) > Len(log_file)
                                         THEN Len(r.file) ELSE 0]
    /\ stack' = SubSeq(stack, 1, Len(stack) - 1)
    /\ UNCHANGED <<clock, probe>>

\* wrapper, lines 100-154: func returns metrics; the clock is read again and
\* the logging region runs; the file system decides io.
wrapper_return(metrics, io) ==
    /\ stack # <<>>
    /\ Accepts(Top.func, Top.args, Top.kwargs)
    /\ \E r \in {func_returned(Top, metrics, clock, io, log_file, file_exists)} :
           /\ log_file' = r.file
           /\ file_exists' = r.exists
           /\ last' = Completed(Top, r, clock, "returned", "", metrics, log_file)
           /\ calls' = [calls EXCEPT ![Top.id].status =
                                         IF r.raised THEN "raised" ELSE "returned",
                                     ![Top.id].failed = r.failure # "",
                                     ![Top.id].position =
                                         IF Len(r.file) > Len(log_file)
                                         THEN Len(r.file) ELSE 0]
    /\ stack' = SubSeq(stack, 1, Len(stack) - 1)
    /\ clock' = clock + 1
    /\ UNCHANGED probe

\* A direct call of _get_func_args, outside any wrapper.
probe_get_func_args(func, args, kwargs) ==
    /\ LET r == _get_func_args(func, args, kwargs)
       IN  probe' = [called |-> TRUE, func |-> func, args |-> args, kwargs |-> kwargs,
                     raised |-> r.raised, exc |-> r.exc, value |-> r.value,
                     warnings |-> r.warnings]
    /\ UNCHANGED <<log_file, file_exists, stack, clock, calls, last>>

\* Calls of wrapped functions, nested or one after the other.
Next ==
    \/ \E c \in CallInputs : wrapper_enter(c.func, c.args, c.kwargs)
    \/ \E e \in BodyExceptions \cup {"TypeError"} : wrapper_raise(e)
    \/ \E metrics \in ReturnValues, io \in IoOutcomes : wrapper_return(metrics, io)

Spec == Init /\ [][Next]_vars

\* One call of a wrapped function, over every way of passing its arguments.
NextArgs ==
    \/ \E func \in Funcs, args \in Args, kwargs \in Kwargs :
           calls = <<>> /\ wrapper_enter(func, args, kwargs)
    \/ \E e \in BodyExceptions \cup {"TypeError"} : wrapper_raise(e)
    \/ \E metrics \in ReturnValues, io \in IoOutcomes : wrapper_return(metrics, io)

SpecArgs == Init /\ [][NextArgs]_vars

\* _get_func_args on its own, over every callable and argument list.
NextBind ==
    \E func \in Funcs, args \in Args, kwargs \in Kwargs :
        probe_get_func_args(func, args, kwargs)

SpecBind == Init /\ [][NextBind]_vars

(***************************************************************************)
(* Properties                                                              *)
(***************************************************************************)
IsPrefix(s, t) == Len(s) <= Len(t) /\ SubSeq(t, 1, Len(s)) = s

\* The calls that wrote the text at position p of the file.
Writers(p) == {i \in 1..Len(calls) : calls[i].position = p}

\* Call j runs inside call i.
RECURSIVE Within(_, _)
Within(j, i) ==
    IF j = 0 THEN FALSE ELSE calls[j].parent = i \/ Within(calls[j].parent, i)

\* The JSON object the last completed call wrote.
LastLine == log_file[calls[last.id].position].json

JsonScalar(a) == [kind |-> "scalar", items |-> <<a>>]

\* The fully defaulted binding, as JSON: parameter by parameter in declaration
\* order, the positional argument, else the keyword argument, else the default.
ExpectedParams(func, args, kwargs) ==
    [i \in 1..Len(func.params) |->
        [name |-> func.params[i].name,
         value |-> JsonScalar(EncodeAtom(
            IF i <= Len(args) THEN args[i]
            ELSE IF KwHas(kwargs, func.params[i].name)
            THEN KwGet(kwargs, func.params[i].name)
            ELSE func.params[i].default))]]

\* {"_args": [...], "_kwargs": {...}} as JSON.
ExpectedDegraded(args, kwargs) ==
    << [name |-> "_args",
        value |-> [kind |-> "array",
                   items |-> [i \in 1..Len(args) |-> EncodeAtom(args[i])]]],
       [name |-> "_kwargs",
        value |-> [kind |-> "object",
                   items |-> [i \in 1..(2 * Len(kwargs)) |->
                       IF i % 2 = 1
                       THEN [t |-> "string", v |-> kwargs[(i + 1) \div 2].name]
                       ELSE EncodeAtom(kwargs[i \div 2].value)]]] >>

\* A value with a part that json has no native form for.
NotJsonRepresentable(pv) ==
    \E i \in 1..Len(pv.items) : pv.items[i].t \notin {"int", "str", "float"}

\* C1: whenever the wrapped function returns a value, the wrapper returns that
\* same value to its caller, whatever happened in the logging region.
C1_ResultReturned ==
    last.func_outcome = "returned" =>
        (last.outcome = "returned" /\ last.value = last.metrics)

\* A call whose write failed and which still returned the function's result.
C1_Witness ==
    /\ last.func_outcome = "returned"
    /\ last.failure = "OSError"
    /\ last.outcome = "returned"
    /\ last.value = last.metrics

\* C2: the step in which the wrapped function raises leaves the file's content
\* and existence as they were, issues no warning, and hands the caller the
\* exception the function raised.
C2_RaiseLeavesNoTrace ==
    [][(last'.id # last.id /\ last'.func_outcome = "raised") =>
          /\ log_file' = log_file
          /\ file_exists' = file_exists
          /\ last'.appended = 0
          /\ last'.warnings = <<>>
          /\ last'.outcome = "raised"
          /\ last'.exc = last'.func_exc]_vars

\* The function raised ValueError, the caller got it, and there is no file.
C2_Witness ==
    /\ last.func_outcome = "raised"
    /\ last.func_exc = "ValueError"
    /\ last.exc = "ValueError"
    /\ ~file_exists
    /\ log_file = <<>>

\* What C3 says of the file whatever the calls' logging did: the content at
\* the start of every call is a prefix of the content now, every text in the
\* file is one newline-terminated line written by exactly one call, and the
\* lines of calls made one after the other are in call order.
AppendOnlyInOrder ==
    /\ \A k \in 1..Len(stack) : IsPrefix(stack[k].before, log_file)
    /\ last.id # 0 => (IsPrefix(last.before, log_file) /\ last.appended \in {0, 1})
    /\ \A p \in 1..Len(log_file) :
           Cardinality(Writers(p)) = 1 /\ log_file[p].newline
    /\ \A i, j \in 1..Len(calls) :
           (i < j /\ calls[i].position # 0 /\ calls[j].position # 0 /\ ~Within(j, i))
               => calls[i].position < calls[j].position

\* C3 as stated: every call whose function returned has appended exactly one
\* line, lines are in call order, earlier content is never rewritten.
C3_Original ==
    /\ AppendOnlyInOrder
    /\ \A i \in 1..Len(calls) : calls[i].status = "returned" => calls[i].position # 0

\* C3: every call whose function returned and whose logging region did not
\* fail has appended exactly one line, a call whose logging failed none; lines
\* are in call order and earlier content is never rewritten.
C3_AppendOnly ==
    /\ AppendOnlyInOrder
    /\ \A i \in 1..Len(calls) :
           /\ (calls[i].status = "returned" /\ ~calls[i].failed) => calls[i].position # 0
           /\ calls[i].failed => calls[i].position = 0

\* Two calls one after the other, the first wrote line 1 and the second line 2.
C3_Witness ==
    /\ Len(calls) = 2
    /\ calls[2].parent = 0
    /\ calls[1].position = 1
    /\ calls[2].position = 2
    /\ Len(log_file) = 2

\* C4: a return value that is not JSON-representable gives a warning and no
\* line, and is returned as it is.
C4_NonSerializableNotLogged ==
    (last.func_outcome = "returned" /\ NotJsonRepresentable(last.metrics)) =>
        /\ last.warnings # <<>>
        /\ last.appended = 0
        /\ last.outcome = "returned"
        /\ last.value = last.metrics

\* C5: when the arguments match the declared parameters, the params recorded
\* in the line are the fully defaulted binding, keys unique and in
\* declaration order.
C5_ParamsAreBinding ==
    (last.appended = 1 /\ BindError(last.func, last.args, last.kwargs) = "") =>
        /\ LastLine.params = ExpectedParams(last.func, last.args, last.kwargs)
        /\ \A i, j \in 1..Len(LastLine.params) :
               LastLine.params[i].name = LastLine.params[j].name => i = j

\* model(5, _c="override") recorded as {"a": 5, "b": 10, "_c": "override"}.
C5_Witness ==
    /\ last.appended = 1
    /\ last.func.id = "model"
    /\ last.args = <<PyInt("5")>>
    /\ last.kwargs = <<Kw("_c", PyStr("override"))>>
    /\ LastLine.params =
           << [name |-> "a", value |-> JsonScalar([t |-> "number", v |-> "5"])],
              [name |-> "b", value |-> JsonScalar([t |-> "number", v |-> "10"])],
              [name |-> "_c", value |-> JsonScalar([t |-> "string", v |-> "override"])] >>

\* The fields of a line other than params, as C6 states them.
LineFields ==
    /\ LastLine.keys =
           <<"timestamp", "runtime_seconds", "params", "metrics", "function_name">>
    /\ LastLine.metrics = Encode(last.metrics)
    /\ LastLine.function_name = [t |-> "string", v |-> last.func.name]
    /\ LastLine.timestamp = [t |-> "string", v |-> last.start_time]
    /\ last.start_time < last.end_time
    /\ last.func_outcome = "returned"

\* C6 as stated: the line has the five fields in order, and its params are
\* the binding of the call's arguments.
C6_Original ==
    last.appended = 1 =>
        /\ LineFields
        /\ BindError(last.func, last.args, last.kwargs) = ""
        /\ LastLine.params = ExpectedParams(last.func, last.args, last.kwargs)

\* C6: the line has the five fields in order; its params are the binding of
\* the call's arguments, or the degraded record when they cannot be bound.
C6_LineFields ==
    last.appended = 1 =>
        /\ LineFields
        /\ LastLine.params =
               IF BindError(last.func, last.args, last.kwargs) = ""
               THEN ExpectedParams(last.func, last.args, last.kwargs)
               ELSE ExpectedDegraded(last.args, last.kwargs)

\* model(b=7, a=1) returned 20 and its line says so.
C6_Witness ==
    /\ last.appended = 1
    /\ last.func.id = "model"
    /\ last.kwargs = <<Kw("b", PyInt("7")), Kw("a", PyInt("1"))>>
    /\ last.metrics = Scalar(PyInt("20"))
    /\ LastLine.metrics = JsonScalar([t |-> "number", v |-> "20"])
    /\ LastLine.function_name = [t |-> "string", v |-> "model"]

WarningsFrom(origins) == SelectSeq(last.warnings, LAMBDA w : w.origin \in origins)

\* C7 as stated: a call appends at most once and warns at most once.
C7_Original ==
    last.id # 0 => (last.appended <= 1 /\ Len(last.warnings) <= 1)

\* C7: a call appends at most once, and warns at most twice: at most once
\* from the argument binder and at most once from the logging-failure handler;
\* it warns twice when the binder falls back and a later logging step fails.
C7_AtMostOnce ==
    last.id # 0 =>
        /\ last.appended <= 1
        /\ Len(last.warnings) <= 2
        /\ Len(WarningsFrom({"_get_func_args"})) <= 1
        /\ Len(WarningsFrom({"failed to log run", "unexpected error"})) <= 1
        /\ (/\ last.func_outcome = "returned"
            /\ BindError(last.func, last.args, last.kwargs) # ""
            /\ last.func.has_name
            /\ last.failure # "") => Len(last.warnings) = 2

\* The binder fell back and then the file could not be opened: two warnings.
C7_Witness ==
    /\ last.func_outcome = "returned"
    /\ last.failure = "PermissionError"
    /\ Len(last.warnings) = 2
    /\ last.appended = 0

\* C8: when a step of the logging region fails after the function returned,
\* the wrapper warns about that failure and no exception reaches the caller.
C8_FailureSwallowed ==
    (last.func_outcome = "returned" /\ last.failure # "") =>
        /\ last.outcome = "returned"
        /\ last.exc = ""
        /\ \E k \in 1..Len(last.warnings) :
               /\ last.warnings[k].about = last.failure
               /\ last.warnings[k].origin \in {"failed to log run", "unexpected error"}

\* A circular return value: the catch-all clause warned, the call returned.
C8_Witness ==
    /\ last.func_outcome = "returned"
    /\ last.failure = "ValueError"
    /\ last.outcome = "returned"
    /\ last.warnings = <<Warning("unexpected error", "ValueError")>>

\* C9: when the arguments cannot be bound, _get_func_args does not raise: it
\* warns once, naming the function, and returns the degraded record.
C9_FallbackNeverRaises ==
    (probe.called /\ BindError(probe.func, probe.args, probe.kwargs) # "") =>
        /\ ~probe.raised
        /\ probe.warnings = <<Warning("_get_func_args", probe.func.name)>>
        /\ probe.value = Degraded(probe.args, probe.kwargs)

\* For nested calls i (outer) and j (inner, called by i's function).
InnerBeforeOuter(i, j) ==
    /\ calls[i].position # 0
    /\ calls[j].position # 0
    /\ calls[j].position < calls[i].position
    /\ log_file[calls[i].position].json.timestamp.v
           < log_file[calls[j].position].json.timestamp.v

\* C10 as stated: when an outer and an inner call both return, each has
\* appended one line, the inner's first, and the outer's timestamp is earlier.
C10_Original ==
    \A i, j \in 1..Len(calls) :
        (calls[j].parent = i /\ calls[i].status = "returned"
                             /\ calls[j].status = "returned")
            => InnerBeforeOuter(i, j)

\* C10: when an outer and an inner call both return and neither's logging
\* fails, each has appended one line, the inner's first, and the outer's
\* timestamp is earlier.
C10_InnerBeforeOuter ==
    \A i, j \in 1..Len(calls) :
        (calls[j].parent = i /\ calls[i].status = "returned" /\ ~calls[i].failed
                             /\ calls[j].status = "returned" /\ ~calls[j].failed)
            => InnerBeforeOuter(i, j)

\* The inner call wrote line 1 and the outer call line 2.
C10_Witness ==
    /\ Len(calls) = 2
    /\ calls[2].parent = 1
    /\ calls[2].position = 1
    /\ calls[1].position = 2
    /\ calls[1].status = "returned"

====
